---- MODULE Spec2Model ----
(***************************************************************************)
(* gosam monocryst.py: the box planner (get_box_to_fill), the atom         *)
(* enumerator (_do_gen_atoms), generate_atoms with its in-place rotation,  *)
(* the rotation-test driver, the lattice catalogue and main.               *)
(*                                                                         *)
(* Lengths are integers in units of eps (eps = 0.001 in the source), so    *)
(* EPS is 1.  Box dimensions and margins are even multiples of eps, which  *)
(* keeps dim/2 and z_margin/2 exact.  Fractional positions inside a unit   *)
(* cell are numerators over FracDen.  Python's axis index 2 is index 3.    *)
(***************************************************************************)
EXTENDS Integers, Sequences, FiniteSets, TLC

\* A RotatedMonocrystal: the lattice as it was when handed to the constructor,
\* self.dim, self.rot_mat, self.unit_cell (the lattice's cell, which
\* generate_atoms rotates in place), self.atoms, self._min_max, and what each
\* generate_atoms call was given and returned.
VARIABLES lattice, dim, rot_mat, unit_cell, atoms, min_max, returned

\* A run of the script: sys.argv, the position in the code, the uncaught
\* exception, what was printed, the exit status, the solver's integers, the
\* RotatedMonocrystal built, the result of get_named_lattice, the files
\* written by export_atoms.
VARIABLES argv, pc, exc, stdout, exit_status, solved, config, named, exported

geom_vars == <<lattice, dim, rot_mat, unit_cell, atoms, min_max, returned>>
prog_vars == <<argv, pc, exc, stdout, exit_status, solved, config, named, exported>>
vars == <<lattice, dim, rot_mat, unit_cell, atoms, min_max, returned,
          argv, pc, exc, stdout, exit_status, solved, config, named, exported>>

----------------------------------------------------------------------------
\* Bounds of the model.

\* generate_atoms is called at most MaxCalls times on one object,
\* and at most MaxHalfCalls times when only halves are generated.
MaxCalls == 3
MaxHalfCalls == 4
\* z_margin ranges over 0, 2, ..., 2*MaxHalfMargin.
MaxHalfMargin == 1
\* dim[2] ranges over 2, 4, ..., 2*MaxHalfDim (dim[0] is 4, dim[1] is 2).
MaxHalfDim == 2

\* eps of get_box_to_fill, the unit of length.
EPS == 1
\* denominator of the fractional positions (0.5 is 1 over 2).
FracDen == 2

None == "None"

----------------------------------------------------------------------------
\* numpy helpers on 3-vectors and 3x3 matrices (tuples of rows).

Dot(v, M) ==
    << v[1]*M[1][1] + v[2]*M[2][1] + v[3]*M[3][1],
       v[1]*M[1][2] + v[2]*M[2][2] + v[3]*M[3][2],
       v[1]*M[1][3] + v[2]*M[2][3] + v[3]*M[3][3] >>

MatMul(A, B) == << Dot(A[1], B), Dot(A[2], B), Dot(A[3], B) >>

Transpose(A) ==
    << <<A[1][1], A[2][1], A[3][1]>>,
       <<A[1][2], A[2][2], A[3][2]>>,
       <<A[1][3], A[2][3], A[3][3]>> >>

Identity3 == << <<1, 0, 0>>, <<0, 1, 0>>, <<0, 0, 1>> >>

VecAdd(u, v) == << u[1] + v[1], u[2] + v[2], u[3] + v[3] >>

Scale(k, A) == [i \in 1..3 |-> [j \in 1..3 |-> k * A[i][j]]]

\* floor and ceiling of n/d for d > 0
FloorDiv(n, d) == IF n >= 0 THEN n \div d ELSE -((-n + d - 1) \div d)
CeilDiv(n, d) == -FloorDiv(-n, d)

Min(S) == CHOOSE x \in S : \A y \in S : x <= y
Max(S) == CHOOSE x \in S : \A y \in S : x >= y

\* rotation by 90 degrees about (0,1,0), as graingen.rodrigues((0,1,0), pi/2)
RotY90 == << <<0, 0, -1>>, <<0, 1, 0>>, <<1, 0, 0>> >>

----------------------------------------------------------------------------
\* Lattices: make_lattice(cell, node_pos, node_atoms).

Node(pos, node_atoms) == [pos |-> pos, atoms_in_node |-> node_atoms]

\* graingen.CubicUnitCell(a): M_1 maps fractional to Cartesian coordinates.
CubicUnitCell(a) == [a |-> a, M_1 |-> Scale(a, Identity3)]

make_lattice(cell, node_pos, node_atoms) ==
    [unit_cell |-> cell,
     nodes |-> [i \in 1..Len(node_pos) |-> Node(node_pos[i], node_atoms)]]

\* one node, one atom, as make_simple_cubic_lattice (cell edge 2 eps)
make_simple_cubic_lattice ==
    [unit_cell |-> CubicUnitCell(2),
     nodes |-> << Node(<<0, 0, 0>>, << [name |-> "X", pos |-> <<0, 0, 0>>] >>) >>]

\* a two-species basis in the shape of make_sic_lattice's node_atoms:
\* Si at the node, C displaced by half a cell along the first axis
make_two_atom_lattice ==
    make_lattice(CubicUnitCell(2), << <<0, 0, 0>> >>,
                 << [name |-> "Si", pos |-> <<0, 0, 0>>],
                    [name |-> "C", pos |-> <<1, 0, 0>>] >>)

Lattices == {make_simple_cubic_lattice, make_two_atom_lattice}

\* the lattice handed to the constructor may already have been rotated
\* (test_rotmono_adjust shares its lattice without copying it)
InitialRotations == {Identity3, RotY90}

\* rot_mat: no rotation (None) or a rotation matrix
NoMatrix == << >>
RotMats == {NoMatrix, RotY90}

Dims == {<<4, 2, 2*hz>> : hz \in 1..MaxHalfDim}
Margins == {2*k : k \in 0..MaxHalfMargin}
\* upper in (True, False, None)
Uppers == {"True", "False", "None"}

----------------------------------------------------------------------------
\* RotatedMonocrystal.get_box_to_fill

get_box_to_fill_far_face_grows(d, upper, z_margin) ==
    LET vmin == << -(d[1] \div 2) + EPS, -(d[2] \div 2) + EPS, -(d[3] \div 2) + EPS >>
        vmax == << (d[1] \div 2) + EPS, (d[2] \div 2) + EPS, (d[3] \div 2) + EPS >>
    IN  IF upper = "True"
        THEN << [vmin EXCEPT ![3] = EPS],
                IF z_margin # 0 THEN [vmax EXCEPT ![3] = @ + z_margin \div 2] ELSE vmax >>
        ELSE IF upper = "False"
        THEN << IF z_margin # 0 THEN [vmin EXCEPT ![3] = @ - z_margin \div 2] ELSE vmin,
                [vmax EXCEPT ![3] = EPS] >>
        ELSE << vmin, vmax >>

get_box_to_fill_cut_face(d, upper, z_margin) ==
    LET vmin == << -(d[1] \div 2) + EPS, -(d[2] \div 2) + EPS, -(d[3] \div 2) + EPS >>
        vmax == << (d[1] \div 2) + EPS, (d[2] \div 2) + EPS, (d[3] \div 2) + EPS >>
    IN  IF upper = "True"
        THEN << [vmin EXCEPT ![3] = EPS + z_margin \div 2], vmax >>
        ELSE IF upper = "False"
        THEN << vmin, [vmax EXCEPT ![3] = EPS - z_margin \div 2] >>
        ELSE << vmin, vmax >>

get_box_to_fill(d, upper, z_margin) ==
    LET vmin == << -(d[1] \div 2) + EPS, -(d[2] \div 2) + EPS, -(d[3] \div 2) + EPS >>
        vmax == << (d[1] \div 2) + EPS, (d[2] \div 2) + EPS, (d[3] \div 2) + EPS >>
    IN  IF upper = "True"
        THEN << [vmin EXCEPT ![3] = EPS],
                IF z_margin # 0 THEN [vmax EXCEPT ![3] = @ - z_margin \div 2] ELSE vmax >>
        ELSE IF upper = "False"
        THEN << IF z_margin # 0 THEN [vmin EXCEPT ![3] = @ + z_margin \div 2] ELSE vmin,
                [vmax EXCEPT ![3] = EPS] >>
        ELSE << vmin, vmax >>

----------------------------------------------------------------------------
\* OrthorhombicPbcModel

\* self._min_max = zip(vmin, vmax)
Zip(vmin, vmax) == << <<vmin[1], vmax[1]>>, <<vmin[2], vmax[2]>>, <<vmin[3], vmax[3]>> >>

get_vertices(mm) ==
    {<<x, y, z>> : x \in {mm[1][1], mm[1][2]},
                   y \in {mm[2][1], mm[2][2]},
                   z \in {mm[3][1], mm[3][2]}}

\* graingen's compute_scope: per axis, the range of translation indices that
\* covers the eight vertices in fractional coordinates (v . M, with M the
\* inverse of M_1, here transpose(M_1)/a^2), widened by one cell each way.
compute_scope(cell, mm) ==
    LET Mt == Transpose(cell.M_1)
        fr == {Dot(v, Mt) : v \in get_vertices(mm)}
        a2 == cell.a * cell.a
    IN  [j \in 1..3 |->
            << FloorDiv(Min({f[j] : f \in fr}), a2) - 1,
               CeilDiv(Max({f[j] : f \in fr}), a2) + 1 >>]

\* graingen's get_all_nodes: the (node, abs_pos) pairs of the scope, the
\* translations in lexicographic order and the nodes in lattice order.
get_all_nodes(lat, scope) ==
    LET n1 == scope[1][2] - scope[1][1] + 1
        n2 == scope[2][2] - scope[2][1] + 1
        n3 == scope[3][2] - scope[3][1] + 1
        nn == Len(lat.nodes)
    IN  [q \in 1..(n1 * n2 * n3 * nn) |->
            LET p == q - 1
                node == lat.nodes[(p % nn) + 1]
                k == scope[3][1] + ((p \div nn) % n3)
                j == scope[2][1] + ((p \div (nn * n3)) % n2)
                i == scope[1][1] + (p \div (nn * n3 * n2))
            IN  [node |-> node,
                 abs_pos |-> VecAdd(node.pos, <<FracDen * i, FracDen * j, FracDen * k>>)]]

\* xyz = dot(abs_pos + atom.pos, self.unit_cell.M_1)
AtomXyz(abs_pos, atom, cell) ==
    LET c == Dot(VecAdd(abs_pos, atom.pos), cell.M_1)
    IN  << c[1] \div FracDen, c[2] \div FracDen, c[3] \div FracDen >>

InBoxClosedLower(vmin, xyz, vmax) ==
    /\ \A i \in 1..3 : vmin[i] <= xyz[i]
    /\ \A i \in 1..3 : xyz[i] <= vmax[i]

InBoxOpenUpper(vmin, xyz, vmax) ==
    /\ \A i \in 1..3 : vmin[i] < xyz[i]
    /\ \A i \in 1..3 : xyz[i] < vmax[i]

\* (vmin < xyz).all() and (xyz <= vmax).all()
InBox(vmin, xyz, vmax) ==
    /\ \A i \in 1..3 : vmin[i] < xyz[i]
    /\ \A i \in 1..3 : xyz[i] <= vmax[i]

\* the inner loop over node.atoms_in_node for one (node, abs_pos): the atoms
\* it appends, in basis order
AtomsOfNode(entry, cell, vmin, vmax) ==
    LET placed == [a \in 1..Len(entry.node.atoms_in_node) |->
                     [name |-> entry.node.atoms_in_node[a].name,
                      pos |-> AtomXyz(entry.abs_pos, entry.node.atoms_in_node[a], cell)]]
        Accepted(atom) == InBox(vmin, atom.pos, vmax)
    IN  SelectSeq(placed, Accepted)

RECURSIVE GenLoop(_, _, _, _, _)
\* the outer loop over get_all_nodes(), entries lo..hi: what it appends, in
\* order (the range is split in two, which keeps the evaluation shallow)
GenLoop(all, lo, hi, cell, box) ==
    IF lo > hi THEN << >>
    ELSE IF lo = hi THEN AtomsOfNode(all[lo], cell, box[1], box[2])
    ELSE LET mid == (lo + hi) \div 2
         IN  GenLoop(all, lo, mid, cell, box) \o GenLoop(all, mid + 1, hi, cell, box)

\* self.atoms after _do_gen_atoms(vmin, vmax), acc being self.atoms before
do_gen_atoms(acc, lat, cell, vmin, vmax) ==
    LET all == get_all_nodes(lat, compute_scope(cell, Zip(vmin, vmax)))
    IN  acc \o GenLoop(all, 1, Len(all), cell, <<vmin, vmax>>)

\* graingen's UnitCell.rotate: the cell is rotated in place
rotate(cell, rot) == [cell EXCEPT !.M_1 = MatMul(cell.M_1, rot)]

\* The orientations a cell can take: the initial ones, rotated any number of
\* times by RotY90.
Orientations ==
    {Identity3, RotY90, MatMul(RotY90, RotY90), MatMul(MatMul(RotY90, RotY90), RotY90)}

\* _do_gen_atoms on an empty self.atoms, tabulated once over the inputs of
\* the model.
GenInputs ==
    UNION {{<<lat, rotate(lat.unit_cell, o), get_box_to_fill(d, u, m)>> :
               o \in Orientations, d \in Dims, u \in Uppers, m \in Margins} : lat \in Lattices}

GenTable == [k \in GenInputs |-> do_gen_atoms(<< >>, k[1], k[2], k[3][1], k[3][2])]

----------------------------------------------------------------------------
\* State after RotatedMonocrystal(lattice, dim, rot_mat).

NoProgram ==
    /\ argv = << >>
    /\ pc = "idle"
    /\ exc = None
    /\ stdout = << >>
    /\ exit_status = << >>
    /\ solved = << >>
    /\ config = << >>
    /\ named = << >>
    /\ exported = << >>

Init ==
    /\ lattice \in Lattices
    /\ dim \in Dims
    /\ rot_mat \in RotMats
    /\ \E r0 \in InitialRotations : unit_cell = rotate(lattice.unit_cell, r0)
    /\ atoms = << >>
    /\ min_max = << >>
    /\ returned = << >>
    /\ NoProgram

\* RotatedMonocrystal.generate_atoms(upper, z_margin): self.atoms is reset,
\* the box planned, the cell rotated in place when there is a rot_mat, the
\* box enumerated; the scope summary and, for the whole box, the number of
\* atoms are printed.  No path raises: every call returns self.atoms.
generate_atoms(upper, z_margin) ==
    /\ LET box == get_box_to_fill(dim, upper, z_margin)
           cell == IF rot_mat # NoMatrix THEN rotate(unit_cell, rot_mat) ELSE unit_cell
           result == GenTable[<<lattice, cell, box>>]
       IN  /\ unit_cell' = cell
           /\ min_max' = Zip(box[1], box[2])
           /\ atoms' = result
           /\ stdout' = IF upper = "None"
                        THEN <<"scope", "Number of atoms in monocrystal: " \o ToString(Len(result))>>
                        ELSE <<"scope">>
           /\ returned' = Append(returned,
                                 [upper |-> upper, z_margin |-> z_margin,
                                  M_1 |-> cell.M_1, vmin |-> box[1], vmax |-> box[2],
                                  outcome |-> "returned", atoms |-> result])
    /\ UNCHANGED <<lattice, dim, rot_mat>>
    /\ UNCHANGED <<argv, pc, exc, exit_status, solved, config, named, exported>>

\* any calls, whole box or half
Next ==
    /\ Len(returned) < MaxCalls
    /\ \E upper \in Uppers, z_margin \in Margins : generate_atoms(upper, z_margin)

Spec == Init /\ [][Next]_vars

\* the calls of a bicrystal assembly: halves only
NextHalves ==
    /\ Len(returned) < MaxHalfCalls
    /\ \E upper \in {"True", "False"}, z_margin \in Margins : generate_atoms(upper, z_margin)

SpecHalves == Init /\ [][NextHalves]_vars

----------------------------------------------------------------------------
\* Properties of generate_atoms, over the calls made so far.

Calls == DOMAIN returned
Last == returned[Len(returned)]
AtomSet(e) == {e.atoms[i] : i \in 1..Len(e.atoms)}

\* every site of the lattice in a region that covers every box of the model
\* (coordinates up to MaxHalfDim + eps, cells of edge 2), computed apart
\* from the scope: translations -R..R along the first and third axes
SitesAround(lat, cell) ==
    LET R == (MaxHalfDim + 1) \div 2 + 1
        basis == UNION {{<<n, a>> : a \in 1..Len(lat.nodes[n].atoms_in_node)} :
                           n \in 1..Len(lat.nodes)}
    IN  {[name |-> lat.nodes[b[1]].atoms_in_node[b[2]].name,
          pos |-> AtomXyz(VecAdd(lat.nodes[b[1]].pos,
                                 <<FracDen * t[1], FracDen * t[2], FracDen * t[3]>>),
                          lat.nodes[b[1]].atoms_in_node[b[2]], cell)] :
            t \in (-R..R) \X (-1..1) \X (-R..R), b \in basis}

SiteTable ==
    [k \in UNION {{<<lat, rotate(lat.unit_cell, o)>> : o \in Orientations} : lat \in Lattices}
        |-> SitesAround(k[1], k[2])]

\* C1: with z_margin = 0 and the same rotation state, the atoms of the whole
\* box are exactly the disjoint union of the atoms of the lower half and of
\* the upper half, so count(whole) = count(lower) + count(upper).
C1_HalvesPartitionWhole ==
    \A w \in Calls, l \in Calls, u \in Calls :
        ( /\ returned[w].upper = "None" /\ returned[w].z_margin = 0
          /\ returned[l].upper = "False" /\ returned[l].z_margin = 0
          /\ returned[u].upper = "True" /\ returned[u].z_margin = 0
          /\ returned[w].M_1 = returned[l].M_1
          /\ returned[w].M_1 = returned[u].M_1 )
        => /\ AtomSet(returned[w]) = AtomSet(returned[l]) \cup AtomSet(returned[u])
           /\ AtomSet(returned[l]) \cap AtomSet(returned[u]) = {}
           /\ Len(returned[w].atoms) = Len(returned[l].atoms) + Len(returned[u].atoms)

\* whole, lower and upper were generated in one rotation state, both halves
\* hold atoms and an atom lies on the interface plane z = eps
C1_Witness ==
    \E w \in Calls, l \in Calls, u \in Calls :
        /\ returned[w].upper = "None" /\ returned[w].z_margin = 0
        /\ returned[l].upper = "False" /\ returned[l].z_margin = 0
        /\ returned[u].upper = "True" /\ returned[u].z_margin = 0
        /\ returned[w].M_1 = returned[l].M_1
        /\ returned[w].M_1 = returned[u].M_1
        /\ returned[u].atoms # << >>
        /\ \E i \in 1..Len(returned[l].atoms) : returned[l].atoms[i].pos[3] = EPS

C3_HalfOpenContainment ==
    returned # << >> =>
        /\ atoms = Last.atoms
        /\ AtomSet(Last) =
              {s \in SiteTable[<<lattice, unit_cell>>] :
                  \A i \in 1..3 : min_max[i][1] < s.pos[i] /\ s.pos[i] <= min_max[i][2]}
        /\ Cardinality(AtomSet(Last)) = Len(atoms)

\* a returned atom lies on vmax on some axis, and a site that lies on vmin on
\* one axis and inside the box on the others was left out
C3_Witness ==
    /\ returned # << >>
    /\ \E i \in 1..Len(atoms), k \in 1..3 : atoms[i].pos[k] = min_max[k][2]
    /\ \E s \in SiteTable[<<lattice, unit_cell>>], k \in 1..3 :
          /\ s.pos[k] = min_max[k][1]
          /\ \A i \in (1..3) \ {k} : min_max[i][1] < s.pos[i] /\ s.pos[i] <= min_max[i][2]
          /\ s \notin AtomSet(Last)

\* C4 as claimed: two calls in a row with the same upper and z_margin return
\* the same sequence of atoms.
C4_RepeatedCallSameAtoms ==
    \A c \in Calls :
        ( /\ c + 1 \in Calls
          /\ returned[c].upper = returned[c + 1].upper
          /\ returned[c].z_margin = returned[c + 1].z_margin )
        => returned[c].atoms = returned[c + 1].atoms

\* C5 as claimed: a box with vmin >= vmax on some axis is rejected with an
\* error and never enumerated.
C5_DegenerateBoxRejected ==
    \A c \in Calls :
        (\E i \in 1..3 : returned[c].vmin[i] >= returned[c].vmax[i])
        => returned[c].outcome = "error"

\* C10: in one rotation state, for margins m1 <= m2, each half's atoms at m2
\* are a subset of its atoms at m1, and lower + upper at m2 count no more
\* atoms than lower + upper at m1.
C10_MarginMonotone ==
    /\ \A i \in Calls, j \in Calls :
          ( /\ returned[i].upper # "None"
            /\ returned[i].upper = returned[j].upper
            /\ returned[i].M_1 = returned[j].M_1
            /\ returned[i].z_margin <= returned[j].z_margin )
          => AtomSet(returned[j]) \subseteq AtomSet(returned[i])
    /\ \A l1 \in Calls, l2 \in Calls :
          ( /\ returned[l1].upper = "False" /\ returned[l2].upper = "False"
            /\ returned[l1].M_1 = returned[l2].M_1
            /\ returned[l1].z_margin <= returned[l2].z_margin )
          => \A u1 \in Calls, u2 \in Calls :
               ( /\ returned[u1].upper = "True" /\ returned[u2].upper = "True"
                 /\ returned[u1].M_1 = returned[l1].M_1
                 /\ returned[u2].M_1 = returned[l1].M_1
                 /\ returned[l1].z_margin = returned[u1].z_margin
                 /\ returned[l2].z_margin = returned[u2].z_margin )
               => Len(returned[l2].atoms) + Len(returned[u2].atoms)
                    <= Len(returned[l1].atoms) + Len(returned[u1].atoms)

\* both halves were generated at two margins in one rotation state, and the
\* larger margin left fewer atoms in each half without emptying it
C10_Witness ==
    \E l1 \in Calls, u1 \in Calls, l2 \in Calls, u2 \in Calls :
        /\ returned[l1].upper = "False" /\ returned[l2].upper = "False"
        /\ returned[u1].upper = "True" /\ returned[u2].upper = "True"
        /\ returned[l1].z_margin = returned[u1].z_margin
        /\ returned[l2].z_margin = returned[u2].z_margin
        /\ returned[l1].z_margin < returned[l2].z_margin
        /\ \A c \in {u1, l2, u2} : returned[c].M_1 = returned[l1].M_1
        /\ Len(returned[l2].atoms) < Len(returned[l1].atoms)
        /\ Len(returned[u2].atoms) < Len(returned[u1].atoms)
        /\ returned[l2].atoms # << >>
        /\ returned[u2].atoms # << >>

----------------------------------------------------------------------------
\* The rotation-test driver, test_rotmono_adjust.

\* the driver is run with a whole number of degrees, 0..MaxThetaDeg
MaxThetaDeg == 45

\* sin of 0..90 degrees, times SinScale, to the nearest integer
SinScale == 1000000
SinTable ==
    << 0, 17452, 34899, 52336, 69756, 87156, 104528, 121869, 139173, 156434,
       173648, 190809, 207912, 224951, 241922, 258819, 275637, 292372, 309017,
       325568, 342020, 358368, 374607, 390731, 406737, 422618, 438371, 453990,
       469472, 484810, 500000, 515038, 529919, 544639, 559193, 573576, 587785,
       601815, 615661, 629320, 642788, 656059, 669131, 681998, 694658, 707107,
       719340, 731354, 743145, 754710, 766044, 777146, 788011, 798636, 809017,
       819152, 829038, 838671, 848048, 857167, 866025, 874620, 882948, 891007,
       898794, 906308, 913545, 920505, 927184, 933580, 939693, 945519, 951057,
       956305, 961262, 965926, 970296, 974370, 978148, 981627, 984808, 987688,
       990268, 992546, 994522, 996195, 997564, 998630, 999391, 999848, 1000000 >>

\* sin(radians(deg)) and cos(radians(deg)), times SinScale
sin(deg) == SinTable[deg + 1]
cos(deg) == SinTable[90 - deg + 1]

\* Python 2's round of num/den for num >= 0, den > 0: halves go away from zero
round(num, den) == (2 * num + den) \div (2 * den)

Abs(x) == IF x < 0 THEN -x ELSE x

\* dimensions = [10*a, 10*a, 10*a]
CellsPerEdge == 10

\* n = round(d * sin(theta) / a), with d = 10*a
solve_n(deg) == round(CellsPerEdge * sin(deg), SinScale)
\* m = round(d / (a * cos(theta)))
solve_m(deg) == round(CellsPerEdge * SinScale, cos(deg))

asin_clamped(num, den) == TRUE

\* math.asin(num/den) returns for -1 <= num/den <= 1 and raises ValueError
\* (math domain error) otherwise
asin_defined(num, den) == Abs(num) <= Abs(den)

ThetaDegrees == 0..MaxThetaDeg

NoObject ==
    /\ lattice = << >>
    /\ dim = << >>
    /\ rot_mat = << >>
    /\ unit_cell = << >>
    /\ atoms = << >>
    /\ min_max = << >>
    /\ returned = << >>

InitRot ==
    /\ NoObject
    /\ \E deg \in ThetaDegrees : argv = <<"monocryst.py", deg>>
    /\ pc = "solve"
    /\ exc = None
    /\ stdout = << >>
    /\ exit_status = << >>
    /\ solved = << >>
    /\ config = << >>
    /\ named = << >>
    /\ exported = << >>

\* lines 147-162: the solver; asin raises outside its domain and the
\* exception ends the run
RotSolve ==
    /\ pc = "solve"
    /\ LET n == solve_n(argv[2])
           m == solve_m(argv[2])
       IN  IF m = 0
           THEN /\ exc' = "ZeroDivisionError"
                /\ exit_status' = <<1>>
                /\ pc' = "failed"
                /\ UNCHANGED <<solved, stdout>>
           ELSE IF ~asin_defined(2 * n, m)
           THEN /\ exc' = "ValueError"
                /\ exit_status' = <<1>>
                /\ pc' = "failed"
                /\ UNCHANGED <<solved, stdout>>
           ELSE /\ solved' = <<[n |-> n, m |-> m]>>
                /\ stdout' = Append(stdout, "theta = ... d = ...")
                /\ pc' = "rodrigues"
                /\ UNCHANGED <<exc, exit_status>>
    /\ UNCHANGED <<argv, config, named, exported>>
    /\ UNCHANGED geom_vars

\* lines 164-165: rot_mat = rodrigues((0,1,0), theta) and the
\* RotatedMonocrystal built with it
RotConstruct ==
    /\ pc = "rodrigues"
    /\ config' = <<[axis |-> <<0, 1, 0>>, sin_2theta |-> <<2 * solved[1].n, solved[1].m>>,
                    generated |-> FALSE]>>
    /\ pc' = "generate"
    /\ UNCHANGED <<argv, exc, stdout, exit_status, solved, named, exported>>
    /\ UNCHANGED geom_vars

\* line 166: config.generate_atoms()
RotGenerate ==
    /\ pc = "generate"
    /\ config' = <<[config[1] EXCEPT !.generated = TRUE]>>
    /\ stdout' = Append(stdout, "Number of atoms in monocrystal: ...")
    /\ pc' = "export"
    /\ UNCHANGED <<argv, exc, exit_status, solved, named, exported>>
    /\ UNCHANGED geom_vars

\* line 167: config.export_atoms("monotest.cfg", format="atomeye")
RotExport ==
    /\ pc = "export"
    /\ exported' = Append(exported, "monotest.cfg")
    /\ exit_status' = <<0>>
    /\ pc' = "done"
    /\ UNCHANGED <<argv, exc, stdout, solved, config, named>>
    /\ UNCHANGED geom_vars

NextRot == RotSolve \/ RotConstruct \/ RotGenerate \/ RotExport

SpecRot == InitRot /\ [][NextRot]_vars

\* C6: when the rounded n and m violate |2n/m| <= 1 the run fails with an
\* error at the solver step: no rotation matrix or RotatedMonocrystal is
\* built, nothing is generated and export_atoms is never called.
C6_CommensurationFailureStops ==
    (pc # "solve" /\ Abs(2 * solve_n(argv[2])) > Abs(solve_m(argv[2])))
    => /\ pc = "failed"
       /\ exc = "ValueError"
       /\ solved = << >>
       /\ config = << >>
       /\ exported = << >>

\* the solver has run on an angle whose rounded integers give 2n/m > 1, and
\* the run has failed
C6_Witness ==
    /\ pc = "failed"
    /\ exc = "ValueError"
    /\ 2 * solve_n(argv[2]) > solve_m(argv[2])

----------------------------------------------------------------------------
\* The lattice catalogue and main.  Strings are sequences of characters.
\* Cell edges are in units of 1e-8 and fractional positions in quarters.

UpperCase == <<"A", "B", "C", "D", "I", "M", "N", "O", "S">>
LowerCase == <<"a", "b", "c", "d", "i", "m", "n", "o", "s">>

\* str.lower()
LowerChar(c) ==
    IF \E k \in 1..Len(UpperCase) : UpperCase[k] = c
    THEN LowerCase[CHOOSE k \in 1..Len(UpperCase) : UpperCase[k] = c]
    ELSE c
lower_keeps_case(str) == str
lower(str) == [i \in 1..Len(str) |-> LowerChar(str[i])]

\* str.startswith(prefix)
startswith(str, prefix) ==
    Len(str) >= Len(prefix) /\ SubSeq(str, 1, Len(prefix)) = prefix

fcc_node_pos == << <<0, 0, 0>>, <<2, 2, 0>>, <<0, 2, 2>>, <<2, 0, 2>> >>

get_diamond_node_pos ==
    [q \in 1..(2 * Len(fcc_node_pos)) |->
        IF q % 2 = 1 THEN fcc_node_pos[(q + 1) \div 2]
        ELSE VecAdd(fcc_node_pos[q \div 2], <<1, 1, 1>>)]

Raised(e) == [raised |-> e, lattice |-> << >>]
Returned(lat) == [raised |-> None, lattice |-> <<lat>>]

make_sic_lattice ==
    Returned([cell |-> <<"cubic", 432119155>>,
              nodes |-> fcc_node_pos,
              node_atoms |-> << <<"Si", 0, 0, 0>>, <<"C", 1, 1, 1>> >>])

make_diamond_lattice(atom_name, a) ==
    Returned([cell |-> <<"cubic", a>>,
              nodes |-> get_diamond_node_pos,
              node_atoms |-> << <<atom_name, 0, 0, 0>> >>])

make_si_lattice == make_diamond_lattice("Si", 543000000)

\* the cell and the nodes come from graingen.generate_polytype; the C atom
\* sits at 0.75/len(polytype) along the stacking axis, which divides by zero
\* for an empty polytype
make_sic_polytype_lattice(polytype) ==
    IF Len(polytype) = 0 THEN Raised("ZeroDivisionError")
    ELSE Returned([cell |-> <<"generate_polytype", polytype>>,
                   nodes |-> <<"generate_polytype", polytype>>,
                   node_atoms |-> << <<"Si", 0, 0, 0>>,
                                     <<"C", 0, 0, <<3, 4 * Len(polytype)>> >> >>])

get_named_lattice(name_arg) ==
    LET name == lower(name_arg)
    IN  IF name = <<"s", "i", "c">> THEN make_sic_lattice
        ELSE IF name = <<"s", "i">> THEN make_si_lattice
        ELSE IF name = <<"d", "i", "a", "m", "o", "n", "d">>
             THEN make_diamond_lattice("C", 356700000)
        ELSE IF startswith(name, <<"s", "i", "c", ":">>)
             THEN make_sic_polytype_lattice(SubSeq(name, 5, Len(name)))
        ELSE Raised("ValueError")

\* the names bound at module level in monocryst.py
ModuleGlobals ==
    {"sys", "sin", "cos", "pi", "atan", "sqrt", "degrees", "radians", "asin", "acos",
     "deepcopy", "dot", "array", "identity", "graingen", "mdprim",
     "find_orthorhombic_pbc", "round_to_multiplicity", "get_command_line",
     "fcc_node_pos", "get_diamond_node_pos", "make_lattice",
     "make_simple_cubic_lattice", "make_sic_lattice", "make_sic_polytype_lattice",
     "make_diamond_lattice", "make_si_lattice", "OrthorhombicPbcModel",
     "RotatedMonocrystal", "test_rotmono_adjust", "mono", "get_named_lattice",
     "usage", "main"}

\* the words the crystal argument is drawn from, in lower case
Words ==
    { << >>, <<"s", "i">>, <<"s", "i", "c">>, <<"s", "i", "o">>, <<"x", "s", "i", "c">>,
      <<"s", "i", "c", ":">>, <<"s", "i", "c", ":", "a", "b">>, <<"s", "i", "c", ";", "a">>,
      <<"d", "i", "a", "m", "o", "n", "d">>, <<"d", "i", "a", "m", "o", "n">> }

UpperChar(c) ==
    IF \E k \in 1..Len(LowerCase) : LowerCase[k] = c
    THEN UpperCase[CHOOSE k \in 1..Len(LowerCase) : LowerCase[k] = c]
    ELSE c

\* every spelling of the words in upper and lower case
Names ==
    UNION {{[i \in 1..Len(w) |-> IF i \in U THEN UpperChar(w[i]) ELSE w[i]] :
                U \in SUBSET (1..Len(w))} : w \in Words}

Digits == {<<"1">>, <<"2">>}

\* sys.argv: the script, then 0 to 6 arguments
ArgLists ==
    {<<c, x, y, z, <<"o">> >> : c \in Names, x \in Digits, y \in Digits, z \in Digits}
    \cup {SubSeq(<< <<"s", "i">>, <<"1">>, <<"1">>, <<"1">>, <<"o">>, <<"x">> >>, 1, k) :
             k \in {0, 1, 2, 3, 4, 6}}

InitCli ==
    /\ NoObject
    /\ \/ /\ pc = "main"
          /\ \E a \in ArgLists : argv = << <<"m">> >> \o a
       \/ /\ pc = "get_named_lattice"
          /\ \E n \in Names : argv = <<n>>
    /\ exc = None
    /\ stdout = << >>
    /\ exit_status = << >>
    /\ solved = << >>
    /\ config = << >>
    /\ named = << >>
    /\ exported = << >>

\* float() of a command-line number
float(str) == IF str = <<"1">> THEN 1 ELSE 2

\* mono(lattice, nx, ny, nz, output_filename): the RotatedMonocrystal built
\* without rotation on a copy of the lattice, its dimensions rounded by the
\* external round_to_multiplicity, generated and exported
mono(lat, nx, ny, nz, output_filename) ==
    [config |-> [lattice |-> lat, rot_mat |-> NoMatrix,
                 dim |-> <<"round_to_multiplicity", 10 * nx, 10 * ny, 10 * nz>>,
                 generated |-> TRUE],
     exported |-> output_filename]

\* main(): a wrong argument count prints usage and sys.exit() leaves with
\* status 0; otherwise line 209 reads the global `name`, which nothing binds,
\* and the NameError ends the run before lines 210-211.  Were `name` bound
\* (to any string), the lattice would be looked up and mono run.
main ==
    /\ pc = "main"
    /\ IF Len(argv) # 6
       THEN /\ stdout' = Append(stdout, "usage")
            /\ exit_status' = <<0>>
            /\ pc' = "main_exited"
            /\ UNCHANGED <<exc, named, config, exported>>
       ELSE IF "name" \notin ModuleGlobals
       THEN /\ exc' = "NameError"
            /\ exit_status' = <<1>>
            /\ pc' = "main_failed"
            /\ UNCHANGED <<stdout, named, config, exported>>
       ELSE \E name \in Names :
              LET r == get_named_lattice(name)
                  run == mono(r.lattice[1], float(argv[3]), float(argv[4]),
                              float(argv[5]), argv[6])
              IN  IF r.raised # None
                  THEN /\ exc' = r.raised
                       /\ exit_status' = <<1>>
                       /\ pc' = "main_failed"
                       /\ UNCHANGED <<stdout, named, config, exported>>
                  ELSE /\ named' = r.lattice
                       /\ config' = <<run.config>>
                       /\ exported' = Append(exported, run.exported)
                       /\ stdout' = Append(stdout, "dimensions [A]: ...")
                       /\ exit_status' = <<0>>
                       /\ pc' = "main_done"
                       /\ UNCHANGED exc
    /\ UNCHANGED <<argv, solved>>
    /\ UNCHANGED geom_vars

\* a direct call get_named_lattice(name)
call_get_named_lattice ==
    /\ pc = "get_named_lattice"
    /\ LET r == get_named_lattice(argv[1])
       IN  /\ named' = r.lattice
           /\ exc' = r.raised
           /\ pc' = IF r.raised = None THEN "returned" ELSE "raised"
    /\ UNCHANGED <<argv, stdout, exit_status, solved, config, exported>>
    /\ UNCHANGED geom_vars

NextCli == main \/ call_get_named_lattice

SpecCli == InitCli /\ [][NextCli]_vars

\* Properties of main and of get_named_lattice.

\* str spells the lower-case word w in some mix of upper and lower case
SpellsWord(str, w) ==
    /\ Len(str) = Len(w)
    /\ \A i \in 1..Len(w) : str[i] = w[i] \/ str[i] = UpperChar(w[i])

IsSic(str) == SpellsWord(str, <<"s", "i", "c">>)
IsSi(str) == SpellsWord(str, <<"s", "i">>)
IsDiamond(str) == SpellsWord(str, <<"d", "i", "a", "m", "o", "n", "d">>)
HasSicPrefix(str) == Len(str) >= 4 /\ SpellsWord(SubSeq(str, 1, 4), <<"s", "i", "c", ":">>)

MainRan == pc \in {"main_exited", "main_failed", "main_done"}
CatalogueRan == pc \in {"returned", "raised"}

\* C7 as claimed: with an argument count other than 5, main prints the usage
\* message and exits with a non-zero status, having built no lattice,
\* enumerated no atoms and exported no file.
C7_WrongCountExitsNonZero ==
    (MainRan /\ Len(argv) # 6)
    => /\ stdout = <<"usage">>
       /\ exit_status # << >>
       /\ exit_status # <<0>>
       /\ named = << >>
       /\ config = << >>
       /\ exported = << >>

\* C8 as claimed: with exactly 5 arguments and a crystal argument among si,
\* sic, diamond, sic:<polytype-code> in any letter case, main builds that
\* lattice and runs mono, so that generation and export are reached.
C8_MainBuildsAndExports ==
    ( /\ MainRan
      /\ Len(argv) = 6
      /\ \/ IsSic(argv[2]) \/ IsSi(argv[2]) \/ IsDiamond(argv[2])
         \/ (HasSicPrefix(argv[2]) /\ Len(argv[2]) > 4) )
    => /\ pc = "main_done"
       /\ exc = None
       /\ named # << >>
       /\ config # << >>
       /\ exported = <<argv[6]>>

\* C9 as claimed: a name that in lower case is not sic, si or diamond and does
\* not start with "sic:" raises the unknown-lattice error and returns no
\* lattice; every other name returns the lattice of the matching builder.
C9_UnknownRaisesKnownReturns ==
    CatalogueRan =>
        LET n == argv[1] IN
        IF IsSic(n) THEN pc = "returned" /\ named = make_sic_lattice.lattice
        ELSE IF IsSi(n) THEN pc = "returned" /\ named = make_si_lattice.lattice
        ELSE IF IsDiamond(n)
             THEN pc = "returned" /\ named = make_diamond_lattice("C", 356700000).lattice
        ELSE IF HasSicPrefix(n)
             THEN /\ pc = "returned"
                  /\ named # << >>
                  /\ named[1].cell[1] = "generate_polytype"
        ELSE pc = "raised" /\ exc = "ValueError" /\ named = << >>

\* C9 amended: a name that in lower case is not sic, si or diamond and does
\* not start with "sic:" raises the unknown-lattice error (ValueError) and
\* returns no lattice; sic, si, diamond and "sic:" followed by a non-empty
\* polytype code return the lattice of the matching builder, the polytype
\* builder being given the code in lower case; the bare prefix "sic:" fails in
\* the polytype builder with ZeroDivisionError and returns no lattice.
C9_UnknownRaisesKnownReturnsButEmptyCode ==
    CatalogueRan =>
        LET n == argv[1] IN
        IF IsSic(n) THEN pc = "returned" /\ exc = None /\ named = make_sic_lattice.lattice
        ELSE IF IsSi(n) THEN pc = "returned" /\ exc = None /\ named = make_si_lattice.lattice
        ELSE IF IsDiamond(n)
             THEN /\ pc = "returned" /\ exc = None
                  /\ named = make_diamond_lattice("C", 356700000).lattice
        ELSE IF HasSicPrefix(n) /\ Len(n) > 4
             THEN /\ pc = "returned" /\ exc = None
                  /\ named # << >>
                  /\ named[1].cell[1] = "generate_polytype"
                  /\ SpellsWord(SubSeq(n, 5, Len(n)), named[1].cell[2])
                  /\ \A i \in 1..Len(named[1].cell[2]) :
                        UpperChar(named[1].cell[2][i]) # named[1].cell[2][i]
        ELSE IF HasSicPrefix(n)
             THEN pc = "raised" /\ exc = "ZeroDivisionError" /\ named = << >>
        ELSE pc = "raised" /\ exc = "ValueError" /\ named = << >>

\* get_named_lattice was called with a name it does not know, spelt with an
\* upper-case letter, and raised
C9_Witness ==
    /\ pc = "raised"
    /\ exc = "ValueError"
    /\ named = << >>
    /\ argv[1] # << >>
    /\ \E i \in 1..Len(argv[1]) : LowerChar(argv[1][i]) # argv[1][i]

====
